---- MODULE Spec2Model ----
(***************************************************************************)
(* Window-state keeper of electron-window-state (src/src/index.ts, the     *)
(* closure variant, lines 57-403).  The module models the process that     *)
(* loads index.ts: the module-level objects defaultWindowBounds and        *)
(* defaultDisplayBounds, the stored JSON document, the keepers created by  *)
(* calling module.exports, the listeners the keepers hold on the host's    *)
(* windows, and the pending debounce timers.                               *)
(***************************************************************************)
EXTENDS Integers, Sequences, FiniteSets, TLC

VARIABLES
    defaultWindowBounds,  \* the module-level object of index.ts:43, mutated in place
    storage,              \* the JSON document under fullStoreFileName
    keeper,               \* keeper[k]: the closure variables of one module.exports call
    subs,                 \* subs[w][k]: how many times k's four handlers are on window w
    destroyed,            \* destroyed[w]: the window has emitted 'closed'
    hist,                 \* hist[k]: bookkeeping of the current notification burst
    last                  \* what the most recent operation was given and what it did

vars == <<defaultWindowBounds, storage, keeper, subs, destroyed, hist, last>>

----------------------------------------------------------------------------
(* JavaScript values that a number-typed field can hold.                   *)

Undefined == [t |-> "undefined", v |-> 0]
Null == [t |-> "null", v |-> 0]
Num(n) == [t |-> "int", v |-> n]

\* the number n + 1/2, which a JSON document can hold and Number.isInteger rejects;
\* it reaches only the tests of hasBounds(), never the arithmetic
Frac(n) == [t |-> "fraction", v |-> n]

\* Number.isInteger(j)
IsInteger(j) == j.t = "int"

\* j || 0
OrZero(j) == IF j.t = "int" THEN j.v ELSE 0

\* if (j) ...
Truthy(j) == j.t = "int" /\ j.v # 0

\* j > n and j < n on a number; undefined compares false
Gt(j, n) == j.t = "int" /\ j.v > n

Rect(x, y, w, h) == [x |-> x, y |-> y, width |-> w, height |-> h]

WB(x, y, w, h) == [x |-> x, y |-> y, width |-> w, height |-> h]

Keepers == {1, 2}

Windows == {"w1", "w2"}

NoWindow == "none"

----------------------------------------------------------------------------
(* Program constants.                                                      *)

DefaultWidth == 800

DefaultHeight == 600

eventHandlingDelay == 100

InitialDefaultWindowBounds == WB(Undefined, Undefined, Num(DefaultWidth), Num(DefaultHeight))

defaultDisplayBounds == Rect(0, 0, 0, 0)

----------------------------------------------------------------------------
(* Bounds of the model.                                                    *)

\* a window carries at most MaxSubs copies of one keeper's handlers
MaxSubs == 2

\* time advances in steps of TickStep units
TickStep == 50

----------------------------------------------------------------------------
(* Displays as the host reports them: bounds and work area.                *)

Display(b, wa) == [bounds |-> b, workArea |-> wa]

FullHD == Rect(0, 0, 1920, 1080)

Plain == Display(FullHD, FullHD)

BottomBar == Display(FullHD, Rect(0, 0, 1920, 1040))

TopBar == Display(FullHD, Rect(0, 40, 1920, 1040))

LeftBar == Display(FullHD, Rect(40, 0, 1880, 1080))

RightOf == Display(Rect(1920, 0, 1920, 1080), Rect(1920, 0, 1920, 1080))

LeftOf == Display(Rect(-1920, 0, 1920, 1080), Rect(-1920, 0, 1920, 1080))

RightBar == Display(FullHD, Rect(0, 0, 1880, 1080))

LeftOfRightBar == Display(Rect(-1920, 0, 1920, 1080), Rect(-1920, 0, 1880, 1080))

\* screen.getAllDisplays() in enumeration order, and which one getPrimaryDisplay() is
Layout(ds, p) == [displays |-> ds, primary |-> p]

AllLayouts ==
    { Layout(<<Plain>>, 1), Layout(<<BottomBar>>, 1), Layout(<<TopBar>>, 1),
      Layout(<<LeftBar>>, 1), Layout(<<Plain, RightOf>>, 1),
      Layout(<<LeftOf, BottomBar>>, 2), Layout(<<RightBar>>, 1),
      Layout(<<LeftOfRightBar, Plain>>, 2) }

SomeLayouts == { Layout(<<BottomBar, RightOf>>, 1) }

NoLayout == Layout(<<>>, 0)

PrimaryBounds(layout) == layout.displays[layout.primary].bounds

----------------------------------------------------------------------------
(* Options, and the stored document.                                       *)

Options(mx, fs, dw, dh) ==
    [maximize |-> mx, fullScreen |-> fs, defaultWidth |-> dw, defaultHeight |-> dh]

LoadOptions ==
    { Options(TRUE, TRUE, dw, dh) : dw \in {Undefined, Num(1000)},
                                    dh \in {Undefined, Num(700)} }

SomeOptions ==
    { Options(TRUE, FALSE, Undefined, Undefined),
      Options(FALSE, TRUE, Num(1000), Num(700)) }

NoOptions == Options(TRUE, TRUE, Undefined, Undefined)

\* a document: absent (no file, unparsable, or a falsy JSON value) or an object
\* whose windowBounds and displayBounds members may be missing
Doc(hasWB, wb, hasDB, db, mx, fs) ==
    [kind |-> "object", hasWB |-> hasWB, windowBounds |-> wb,
     hasDB |-> hasDB, displayBounds |-> db, isMaximized |-> mx, isFullScreen |-> fs]

Absent ==
    [kind |-> "absent", hasWB |-> FALSE, windowBounds |-> InitialDefaultWindowBounds,
     hasDB |-> FALSE, displayBounds |-> defaultDisplayBounds,
     isMaximized |-> FALSE, isFullScreen |-> FALSE]

Record(wb, db, mx, fs) == Doc(TRUE, wb, TRUE, db, mx, fs)

\* jsonfile.writeFileSync(fullStoreFileName, state): undefined members are left out
\* and read back as undefined, null stays null
ToDocument(s) == Record(s.windowBounds, s.displayBounds, s.isMaximized, s.isFullScreen)

State(wb, db, mx, fs) ==
    [windowBounds |-> wb, displayBounds |-> db, isMaximized |-> mx, isFullScreen |-> fs]

----------------------------------------------------------------------------
(* The pure parts of index.ts, on a state value s.                         *)

\* hasBounds()
hasBounds(s) ==
    /\ IsInteger(s.windowBounds.x)
    /\ IsInteger(s.windowBounds.y)
    /\ IsInteger(s.windowBounds.width) /\ s.windowBounds.width.v > 0
    /\ IsInteger(s.windowBounds.height) /\ s.windowBounds.height.v > 0

\* windowWithinBounds(bounds) as the older variants write it (part_000:103-114),
\* where || binds looser than >=, <= and &&
windowWithinBoundsUnparenthesized(s, bounds) ==
    LET wb == s.windowBounds
    IN  \/ Truthy(wb.x)
        \/ ( 0 >= bounds.x /\ Truthy(wb.y) )
        \/ ( 0 >= bounds.y /\ Truthy(wb.x) )
        \/ ( IsInteger(wb.width) /\ wb.width.v <= bounds.x + bounds.width /\ Truthy(wb.y) )
        \/ ( IsInteger(wb.height) /\ wb.height.v <= bounds.y + bounds.height )

\* windowWithinBounds(bounds)
windowWithinBounds(s, bounds) ==
    LET stateX == OrZero(s.windowBounds.x)
        stateY == OrZero(s.windowBounds.y)
    IN  /\ stateX >= bounds.x
        /\ stateY >= bounds.y
        /\ IsInteger(s.windowBounds.width)
        /\ stateX + s.windowBounds.width.v <= bounds.x + bounds.width
        /\ IsInteger(s.windowBounds.height)
        /\ stateY + s.windowBounds.height.v <= bounds.y + bounds.height

\* the state left as loaded, neither shrunk nor moved
resizeAndReplaceNothing(s, display) == s

\* resizeAndReplaceWindowForWorkArea(display)
resizeAndReplaceWindowForWorkArea(s, display) ==
    IF s.isFullScreen \/ s.isMaximized THEN s
    ELSE
    LET wb == s.windowBounds
        wa == display.workArea
        stateX == OrZero(wb.x)
        stateY == OrZero(wb.y)
        width1 == IF Gt(wb.width, wa.width) THEN Num(wa.width) ELSE wb.width
        height1 == IF Gt(wb.height, wa.height) THEN Num(wa.height) ELSE wb.height
        \* for left taskbar
        x1 == IF stateX < wa.x THEN Num(wa.x) ELSE wb.x
        \* for right taskbar
        x2 == IF IsInteger(width1) /\ stateX + width1.v > wa.width
              THEN Num(wa.x + wa.width - width1.v) ELSE x1
        \* for top taskbar
        y1 == IF stateY < display.bounds.height - wa.height THEN Num(wa.y) ELSE wb.y
        \* for bottom taskbar
        y2 == IF IsInteger(height1) /\ stateY + height1.v > wa.height
              THEN Num(wa.y + wa.height - height1.v) ELSE y1
    IN  [s EXCEPT !.windowBounds = WB(x2, y2, width1, height1)]

\* resetStateToDefault()
resetStateToDefault(s, config, layout) ==
    State(WB(Undefined, Undefined, Num(DefaultWidth), Num(DefaultHeight)),
          PrimaryBounds(layout), FALSE, FALSE)

\* screen.getAllDisplays().find(v => windowWithinBounds(v.bounds)): 0 when none
FindDisplay(s, layout) ==
    LET hits == { i \in 1..Len(layout.displays) :
                    windowWithinBounds(s, layout.displays[i].bounds) }
    IN  IF hits = {} THEN 0 ELSE CHOOSE i \in hits : \A j \in hits : i <= j

\* ensureWindowVisibleOnSomeDisplay()
ensureWindowVisibleOnSomeDisplay(s, config, layout) ==
    LET i == FindDisplay(s, layout)
    IN  IF i = 0 THEN resetStateToDefault(s, config, layout)
        ELSE resizeAndReplaceWindowForWorkArea(s, layout.displays[i])

\* validateState() accepting a state for its bounds only
isValidByBoundsOnly(s) == hasBounds(s)

\* the isValid test of validateState()
isValid(s) == hasBounds(s) \/ s.isMaximized \/ s.isFullScreen

\* validateState() on a valid state: the state it leaves
validateState(s, config, layout) ==
    IF hasBounds(s) THEN ensureWindowVisibleOnSomeDisplay(s, config, layout) ELSE s

----------------------------------------------------------------------------
(* The keepers.                                                            *)

\* no window was queried
Unobserved ==
    [bounds |-> Rect(0, 0, 0, 0), mode |-> "none", display |-> Rect(0, 0, 0, 0),
     failAt |-> "none"]

\* the record of an operation op of keeper k on window w: the display layout and
\* the window's answers it was given, the host calls it made, how the write it
\* attempted ended, and whether it threw
Did(op, k, w) ==
    [op |-> op, k |-> k, w |-> w, layout |-> NoLayout, obs |-> Unobserved,
     maximize |-> 0, setFullScreen |-> 0, updates |-> 0, cleared |-> 0,
     writes |-> 0, write |-> "none", threw |-> FALSE]

NotCreated ==
    [created |-> FALSE, config |-> NoOptions, readedData |-> Absent,
     state |-> State(InitialDefaultWindowBounds, defaultDisplayBounds, FALSE, FALSE),
     wbShared |-> FALSE, winRef |-> NoWindow, isManage |-> FALSE,
     timers |-> <<>>, handleLive |-> FALSE]

\* hist[k]: whether a burst of 'resize'/'move' notifications is under way (a timer
\* was set and the keeper was not detached since), how many notifications it had
\* (counted to 2), how many updateState calls its timers made (counted to 2), and
\* the time since its last notification (counted to eventHandlingDelay)
NoBurst == [active |-> FALSE, notes |-> 0, samples |-> 0, elapsed |-> 0]

\* getState(): state.windowBounds is the module-level defaultWindowBounds object
\* when the keeper fell back to the default state (index.ts:116)
getState(k) ==
    IF keeper[k].wbShared
    THEN [keeper[k].state EXCEPT !.windowBounds = defaultWindowBounds]
    ELSE keeper[k].state

\* the state assembled from the document (index.ts:84-103)
LoadedState(doc) ==
    State(doc.windowBounds, doc.displayBounds, doc.isMaximized, doc.isFullScreen)

\* the load leaves a state: the document is an object, reading its members did not
\* throw, and validateState() returned true (index.ts:80-112)
Loads(doc) ==
    /\ doc.kind = "object"
    /\ doc.hasWB
    /\ doc.hasDB
    /\ isValid(LoadedState(doc))

\* Object.assign of the defaults and the options, then if (config.defaultHeight),
\* if (config.defaultWidth) on the module-level object (index.ts:116-125)
ApplyConfigDefaults(dwb, config) ==
    [dwb EXCEPT !.height = IF Truthy(config.defaultHeight) THEN config.defaultHeight ELSE @,
                !.width = IF Truthy(config.defaultWidth) THEN config.defaultWidth ELSE @]

\* module.exports(options): index.ts:57-133
Construct(k, options, layout) ==
    /\ ~keeper[k].created
    /\ LET doc == storage
           loads == Loads(doc)
       IN  /\ keeper' = [keeper EXCEPT ![k] =
                  [NotCreated EXCEPT
                     !.created = TRUE,
                     !.config = options,
                     !.readedData = IF doc.kind = "object" THEN doc ELSE Absent,
                     !.state = IF loads
                               THEN validateState(LoadedState(doc), options, layout)
                               ELSE State(InitialDefaultWindowBounds,
                                          defaultDisplayBounds, FALSE, FALSE),
                     !.wbShared = ~loads]]
           /\ defaultWindowBounds' =
                  IF loads THEN defaultWindowBounds
                  ELSE ApplyConfigDefaults(defaultWindowBounds, options)
    /\ last' = [Did("create", k, NoWindow) EXCEPT !.layout = layout]
    /\ UNCHANGED <<storage, subs, destroyed, hist>>

----------------------------------------------------------------------------
(* Observing a window, and the change test.                                *)

\* what the host answers when a window is queried: its bounds, whether it is
\* maximized, minimized or full-screen, the bounds of the display matching it, and
\* the first query that throws, if one does
Obs(b, mode, d, failAt) == [bounds |-> b, mode |-> mode, display |-> d, failAt |-> failAt]

FailPoints ==
    <<"getBounds", "isNormal", "isMaximized", "isFullScreen", "getDisplayMatching", "none">>

\* the query named q was reached and answered before the one that throws
Answered(obs, q) ==
    \E i, j \in 1..Len(FailPoints) :
        FailPoints[i] = q /\ FailPoints[j] = obs.failAt /\ i < j

\* a destroyed window throws on the first query
Seen(obs, win) == IF destroyed[win] THEN [obs EXCEPT !.failAt = "getBounds"] ELSE obs

\* updateState's try block without the isNormal(win) test
ObserveWhateverMode(s, obs) ==
    LET b == obs.bounds
    IN  [ windowBounds |-> WB(Num(b.x), Num(b.y), Num(b.width), Num(b.height)),
          isMaximized |-> obs.mode = "maximized",
          isFullScreen |-> obs.mode = "fullscreen",
          displayBounds |-> obs.display ]

\* the body of updateState's try block (index.ts:259-271) on state s
Observe(s, obs) ==
    LET normal == Answered(obs, "isNormal") /\ obs.mode = "normal"
        b == obs.bounds
    IN  [ windowBounds |-> IF normal
                           THEN WB(Num(b.x), Num(b.y), Num(b.width), Num(b.height))
                           ELSE s.windowBounds,
          isMaximized |-> IF Answered(obs, "isMaximized")
                          THEN obs.mode = "maximized" ELSE s.isMaximized,
          isFullScreen |-> IF Answered(obs, "isFullScreen")
                           THEN obs.mode = "fullscreen" ELSE s.isFullScreen,
          displayBounds |-> IF Answered(obs, "getDisplayMatching")
                            THEN obs.display ELSE s.displayBounds ]

\* updateState(win): win || winRef, the guard of index.ts:255, then the try block
updateState(k, win, obs) ==
    LET target == IF win # NoWindow THEN win ELSE keeper[k].winRef
    IN  IF target = NoWindow \/ ~keeper[k].isManage THEN getState(k)
        ELSE Observe(getState(k), Seen(obs, target))

\* the comparison as src/index.js:136-169 writes it: the test of the coordinates,
\* size and flags is made twice, the one of displayBounds never, and x, y, width and
\* height are read from the record and the state themselves, where they are unset
checkUpdatedStateFlagsOnly(readedData, s) ==
    IF readedData.kind # "object" THEN "changed"
    ELSE IF \/ readedData.isMaximized # s.isMaximized
            \/ readedData.isFullScreen # s.isFullScreen
         THEN "changed"
    ELSE "same"

\* the comparison with the test of line 275 answering false: no record, no change
checkUpdatedStateIgnoringAbsent(readedData, s) ==
    IF readedData.kind # "object" THEN "same"
    ELSE IF ~readedData.hasDB \/ ~readedData.hasWB THEN "throw"
    ELSE IF ToDocument(s) # readedData THEN "changed"
    ELSE "same"

\* checkUpdatedStateCompareToReadedData(): "changed", "same", or "throw" when a
\* member of readedData that the comparison reads is missing (index.ts:274-316)
checkUpdatedStateCompareToReadedData(readedData, s) ==
    IF readedData.kind # "object" THEN "changed"
    ELSE IF ~readedData.hasDB THEN "throw"
    ELSE IF readedData.displayBounds # s.displayBounds THEN "changed"
    ELSE IF ~readedData.hasWB THEN "throw"
    ELSE IF \/ readedData.windowBounds.x # s.windowBounds.x
            \/ readedData.windowBounds.y # s.windowBounds.y
            \/ readedData.windowBounds.width # s.windowBounds.width
            \/ readedData.windowBounds.height # s.windowBounds.height
            \/ readedData.isMaximized # s.isMaximized
            \/ readedData.isFullScreen # s.isFullScreen
         THEN "changed"
    ELSE "same"

\* the keeper's own part of a state, and the module-level object, after the
\* keeper's state became s
OwnPart(k, s) ==
    IF keeper[k].wbShared
    THEN [s EXCEPT !.windowBounds = InitialDefaultWindowBounds] ELSE s

SharedPart(k, s) == IF keeper[k].wbShared THEN s.windowBounds ELSE defaultWindowBounds

\* a saveState() that returns before the write
saveStateWithoutWrite(k, s) == [threw |-> FALSE, writes |-> 0]

\* saveState(win) on the state s that updateState left (index.ts:338-361):
\* whether it throws, and the writes it attempts
saveState(k, s) ==
    LET test == checkUpdatedStateCompareToReadedData(keeper[k].readedData, s)
    IN  [threw |-> test = "throw", writes |-> IF test = "changed" THEN 1 ELSE 0]

\* how mkdirp.sync and jsonfile.writeFileSync end (index.ts:354-359): the document
\* is written; the write is refused and the file is as it was; or the write fails
\* after the file was opened and leaves a file that does not parse
WriteOutcomes == {"written", "refused", "truncated"}

SomeOutcomes == {"written", "refused"}

\* a write that stores the document however it ends
writeFileSyncRegardless(doc, s, outcome) == ToDocument(s)

\* the store file after a write of state s that ends as outcome
writeFileSync(doc, s, outcome) ==
    IF outcome = "written" THEN ToDocument(s)
    ELSE IF outcome = "truncated" THEN Absent
    ELSE doc

\* a clearTimeout that cancels nothing
clearTimeoutOfNothing(kr) == kr

\* clearTimeout(stateChangeTimer)
clearTimeout(kr) ==
    IF kr.handleLive
    THEN [kr EXCEPT !.timers = SubSeq(@, 1, Len(@) - 1), !.handleLive = FALSE]
    ELSE kr

\* how many pending timers clearTimeout(stateChangeTimer) cancels
Cleared(kr) == IF kr.handleLive THEN 1 ELSE 0

\* setTimeout(updateState, delay)
setTimeout(kr, delay) ==
    [kr EXCEPT !.timers = Append(@, delay), !.handleLive = TRUE]

\* each window is managed by the handlers of one keeper at most
SoleSubscriber(w, k) == \A j \in Keepers \ {k} : subs[w][j] = 0

Max(a, b) == IF a > b THEN a ELSE b

Min(a, b) == IF a < b THEN a ELSE b

----------------------------------------------------------------------------
(* The operations of a keeper and the notifications of its windows.        *)

\* manage() restoring the maximized flag whatever config.maximize says
maximizeCallsIgnoringConfig(config, s) == IF s.isMaximized THEN 1 ELSE 0

\* if (config.maximize && state.isMaximized) win.maximize(): the calls made
maximizeCalls(config, s) == IF config.maximize /\ s.isMaximized THEN 1 ELSE 0

\* if (config.fullScreen && state.isFullScreen) win.setFullScreen(true)
setFullScreenCalls(config, s) == IF config.fullScreen /\ s.isFullScreen THEN 1 ELSE 0

\* manage(win): index.ts:364-382
Manage(k, w) ==
    /\ keeper[k].created
    /\ ~destroyed[w]
    /\ SoleSubscriber(w, k)
    /\ subs[w][k] < MaxSubs
    /\ LET s == getState(k)
           config == keeper[k].config
       IN  last' = [Did("manage", k, w) EXCEPT
                      !.maximize = maximizeCalls(config, s),
                      !.setFullScreen = setFullScreenCalls(config, s)]
    /\ subs' = [subs EXCEPT ![w][k] = @ + 1]
    /\ keeper' = [keeper EXCEPT ![k].winRef = w, ![k].isManage = TRUE]
    /\ UNCHANGED <<defaultWindowBounds, storage, destroyed, hist>>

\* unmanage() without its clearTimeout(stateChangeTimer)
unmanageKeepingTimer(kr) == IF kr.winRef = NoWindow THEN kr ELSE [kr EXCEPT !.isManage = FALSE]

\* the keeper and the listeners after unmanage() ran `runs` times: index.ts:384-394
unmanage(kr) == IF kr.winRef = NoWindow THEN kr ELSE [clearTimeout(kr) EXCEPT !.isManage = FALSE]

Unsubscribed(k, runs) ==
    IF keeper[k].winRef = NoWindow THEN subs
    ELSE [subs EXCEPT ![keeper[k].winRef][k] = Max(0, @ - runs)]

Unmanage(k) ==
    /\ keeper[k].created
    /\ keeper' = [keeper EXCEPT ![k] = unmanage(@)]
    /\ subs' = Unsubscribed(k, 1)
    /\ hist' = [hist EXCEPT ![k].active = IF keeper[k].winRef = NoWindow THEN @ ELSE FALSE]
    /\ last' = [Did("unmanage", k, NoWindow) EXCEPT
                  !.cleared = IF keeper[k].winRef = NoWindow THEN 0 ELSE Cleared(keeper[k])]
    /\ UNCHANGED <<defaultWindowBounds, storage, destroyed>>

\* stateChangeHandler() without its clearTimeout(stateChangeTimer)
stateChangeHandlerKeepingTimer(kr) == setTimeout(kr, eventHandlingDelay)

\* stateChangeHandler(), on a 'resize' or 'move' of window w: index.ts:318-322
stateChangeHandler(kr) == setTimeout(clearTimeout(kr), eventHandlingDelay)

StateChange(w, k) ==
    /\ ~destroyed[w]
    /\ subs[w][k] > 0
    /\ keeper' = [keeper EXCEPT ![k] = stateChangeHandler(@)]
    /\ hist' = [hist EXCEPT ![k] =
                  IF keeper[k].handleLive /\ @.active
                  THEN [@ EXCEPT !.elapsed = 0, !.notes = Min(2, @ + 1)]
                  ELSE [active |-> TRUE, notes |-> 1, samples |-> 0, elapsed |-> 0]]
    /\ last' = [Did("notify", k, w) EXCEPT !.cleared = Cleared(keeper[k])]
    /\ UNCHANGED <<defaultWindowBounds, storage, subs, destroyed>>

\* time passes
Tick ==
    /\ \E k \in Keepers : \E i \in 1..Len(keeper[k].timers) : keeper[k].timers[i] > 0
    /\ keeper' = [k \in Keepers |->
                    [keeper[k] EXCEPT !.timers =
                        [i \in 1..Len(@) |-> Max(0, @[i] - TickStep)]]]
    /\ hist' = [k \in Keepers |->
                    [hist[k] EXCEPT !.elapsed = Min(eventHandlingDelay, @ + TickStep)]]
    /\ last' = Did("tick", 0, NoWindow)
    /\ UNCHANGED <<defaultWindowBounds, storage, subs, destroyed>>

\* a timer set by stateChangeHandler comes due and the host calls updateState()
TimerFire(k, i, obs) ==
    /\ i \in 1..Len(keeper[k].timers)
    /\ keeper[k].timers[i] = 0
    /\ LET s == updateState(k, NoWindow, obs)
           kr == keeper[k]
       IN  /\ keeper' = [keeper EXCEPT ![k] =
                  [kr EXCEPT !.timers = SubSeq(@, 1, i - 1) \o SubSeq(@, i + 1, Len(@)),
                             !.handleLive = @ /\ i # Len(kr.timers),
                             !.state = OwnPart(k, s)]]
           /\ defaultWindowBounds' = SharedPart(k, s)
    /\ hist' = [hist EXCEPT ![k].samples = Min(2, @ + 1)]
    /\ last' = [Did("timer", k, NoWindow) EXCEPT !.updates = 1, !.obs = obs]
    /\ UNCHANGED <<storage, subs, destroyed>>

\* a closeHandler() that leaves the sample to the debounce timer
closeHandlerDeferring(k, obs) == getState(k)

\* closeHandler(): the state it leaves (index.ts:324-326)
closeHandler(k, obs) == updateState(k, NoWindow, obs)

\* 'close' of window w
Close(w, k, obs) ==
    /\ ~destroyed[w]
    /\ subs[w][k] > 0
    /\ LET s == closeHandler(k, obs)
       IN  /\ keeper' = [keeper EXCEPT ![k].state = OwnPart(k, s)]
           /\ defaultWindowBounds' = SharedPart(k, s)
    /\ last' = [Did("close", k, w) EXCEPT !.updates = subs[w][k], !.obs = obs]
    /\ UNCHANGED <<storage, subs, destroyed, hist>>

\* closedHandler(), on 'closed' of window w, once for each copy of the handler on
\* w; a throw ends the emit: index.ts:328-332
Closed(w, k, outcome) ==
    /\ ~destroyed[w]
    /\ subs[w][k] > 0
    /\ LET saved == saveState(k, getState(k))
           runs == IF saved.threw THEN 1 ELSE subs[w][k]
       IN  /\ keeper' = [keeper EXCEPT ![k] = unmanage(@)]
           /\ subs' = Unsubscribed(k, runs)
           /\ storage' = IF saved.writes > 0
                         THEN writeFileSync(storage, getState(k), outcome) ELSE storage
           /\ last' = [Did("closed", k, w) EXCEPT
                         !.cleared = IF keeper[k].winRef = NoWindow THEN 0
                                     ELSE Cleared(keeper[k]),
                         !.writes = runs * saved.writes,
                         !.write = IF saved.writes > 0 THEN outcome ELSE "none",
                         !.threw = saved.threw]
    /\ destroyed' = [destroyed EXCEPT ![w] = TRUE]
    /\ hist' = [hist EXCEPT ![k].active = IF keeper[k].winRef = NoWindow THEN @ ELSE FALSE]
    /\ UNCHANGED defaultWindowBounds

\* saveState(win) called by the host, with or without a window
SaveState(k, win, obs, outcome) ==
    /\ keeper[k].created
    /\ LET s == IF win = NoWindow THEN getState(k) ELSE updateState(k, win, obs)
           saved == saveState(k, s)
       IN  /\ keeper' = [keeper EXCEPT ![k].state = OwnPart(k, s)]
           /\ defaultWindowBounds' = SharedPart(k, s)
           /\ storage' = IF saved.writes > 0
                         THEN writeFileSync(storage, s, outcome) ELSE storage
           /\ last' = [Did("save", k, win) EXCEPT
                         !.updates = IF win = NoWindow THEN 0 ELSE 1,
                         !.obs = IF win = NoWindow THEN Unobserved ELSE obs,
                         !.writes = saved.writes,
                         !.write = IF saved.writes > 0 THEN outcome ELSE "none",
                         !.threw = saved.threw]
    /\ UNCHANGED <<subs, destroyed, hist>>

----------------------------------------------------------------------------
(* Stored documents the process may find at start.                         *)

StoredRects ==
    { WB(Num(100), Num(100), Num(800), Num(600)),
      WB(Num(100), Num(10), Num(800), Num(600)),
      WB(Num(100), Num(450), Num(800), Num(600)),
      WB(Num(2000), Num(100), Num(800), Num(600)),
      WB(Num(-1000), Num(100), Num(800), Num(600)),
      WB(Num(3000), Num(3000), Num(800), Num(600)),
      WB(Num(0), Num(0), Num(1920), Num(1080)),
      WB(Num(0), Num(100), Num(1870), Num(600)),
      WB(Num(-900), Num(100), Num(880), Num(600)),
      WB(Undefined, Num(100), Num(800), Num(600)),
      WB(Num(100), Null, Num(800), Num(600)),
      WB(Num(100), Num(100), Num(0), Num(600)),
      WB(Num(100), Num(100), Num(800), Undefined),
      WB(Num(100), Num(100), Num(800), Frac(600)),
      WB(Num(100), Num(100), Num(800), Num(-600)) }

StoredFlags == { <<FALSE, FALSE>>, <<TRUE, FALSE>>, <<FALSE, TRUE>> }

AllStored ==
    { Record(wb, FullHD, f[1], f[2]) : wb \in StoredRects, f \in StoredFlags }
    \cup { Absent,
           Doc(FALSE, InitialDefaultWindowBounds, FALSE, defaultDisplayBounds, FALSE, FALSE),
           Doc(TRUE, WB(Num(100), Num(100), Num(800), Num(600)), FALSE,
               defaultDisplayBounds, FALSE, FALSE),
           Doc(FALSE, InitialDefaultWindowBounds, TRUE, defaultDisplayBounds, FALSE, FALSE) }

InitWith(docs) ==
    /\ defaultWindowBounds = InitialDefaultWindowBounds
    /\ storage \in docs
    /\ keeper = [k \in Keepers |-> NotCreated]
    /\ subs = [w \in Windows |-> [k \in Keepers |-> 0]]
    /\ destroyed = [w \in Windows |-> FALSE]
    /\ hist = [k \in Keepers |-> NoBurst]
    /\ last = Did("start", 0, NoWindow)

----------------------------------------------------------------------------
(* SpecLoad: the process starts with any stored document and keepers are   *)
(* constructed, with any options and any display layout.                   *)

InitLoad == InitWith(AllStored)

NextLoad == \E k \in Keepers, options \in LoadOptions, layout \in AllLayouts :
                Construct(k, options, layout)

SpecLoad == InitLoad /\ [][NextLoad]_vars

----------------------------------------------------------------------------
(* Claims about construction.                                              *)

\* the keeper that the most recent operation constructed
JustCreated(k) == last.op = "create" /\ last.k = k

\* the default record the spec asks for: config.defaultWidth x config.defaultHeight
\* (800 x 600 when not configured), position unset, both flags false
ConfiguredDefault(config, db) ==
    State(WB(Undefined, Undefined,
             IF IsInteger(config.defaultWidth) THEN config.defaultWidth ELSE Num(800),
             IF IsInteger(config.defaultHeight) THEN config.defaultHeight ELSE Num(600)),
          db, FALSE, FALSE)

\* C1: round trip: a keeper constructed from a stored record that is valid, not
\* maximized, not full-screen and whose window rectangle lies inside some attached
\* display has a current state equal field by field to the stored record.
C1_RoundTrip ==
    \A k \in Keepers :
        LET doc == keeper[k].readedData
        IN  ( /\ JustCreated(k)
              /\ Loads(doc)
              /\ hasBounds(LoadedState(doc))
              /\ ~doc.isMaximized /\ ~doc.isFullScreen
              /\ FindDisplay(LoadedState(doc), last.layout) # 0 )
            => getState(k) = LoadedState(doc)

\* C2: a loaded record with valid bounds that no attached display fully contains
\* leaves the total default reset: config.defaultWidth x config.defaultHeight, unset
\* position, the primary display's bounds, both flags false.
C2_TotalReset ==
    \A k \in Keepers :
        LET doc == keeper[k].readedData
        IN  ( /\ JustCreated(k)
              /\ Loads(doc)
              /\ hasBounds(LoadedState(doc))
              /\ FindDisplay(LoadedState(doc), last.layout) = 0 )
            => getState(k) = ConfiguredDefault(keeper[k].config, PrimaryBounds(last.layout))

\* C3: a stored record that is absent, unreadable or not valid leaves exactly the
\* default record: config.defaultWidth x config.defaultHeight (800 x 600 when not
\* configured), x and y unset, displayBounds {0,0,0,0}, both flags false.
C3_DefaultRecord ==
    \A k \in Keepers :
        ( JustCreated(k) /\ ~Loads(storage) )
            => getState(k) = ConfiguredDefault(keeper[k].config, Rect(0, 0, 0, 0))

----------------------------------------------------------------------------
(* Spec: one keeper is constructed and attached to two windows, which send *)
(* their notifications while time passes.                                  *)

NoObs == Obs(Rect(0, 0, 0, 0), "normal", Rect(0, 0, 0, 0), "getBounds")

Stored100 == Record(WB(Num(100), Num(100), Num(800), Num(600)), FullHD, FALSE, FALSE)

AttachStored == { Absent, Stored100 }

AttachObs == { Obs(Rect(2000, 50, 1024, 768), "normal", RightOf.bounds, "none"), NoObs }

Managed == {1}

Init == InitWith(AttachStored)

Next ==
    \/ \E k \in Managed, layout \in SomeLayouts : Construct(k, NoOptions, layout)
    \/ \E k \in Managed, w \in Windows : Manage(k, w)
    \/ \E k \in Managed : Unmanage(k)
    \/ \E k \in Managed, w \in Windows : StateChange(w, k)
    \/ Tick
    \/ \E k \in Managed, i \in 1..2, obs \in AttachObs : TimerFire(k, i, obs)
    \/ \E k \in Managed, w \in Windows, obs \in AttachObs : Close(w, k, obs)
    \/ \E k \in Managed, w \in Windows, outcome \in SomeOutcomes : Closed(w, k, outcome)

Spec == Init /\ [][Next]_vars

----------------------------------------------------------------------------
(* SpecStore: one keeper is constructed from any of the stored shapes,     *)
(* attached to one window at a time, and observes and persists.            *)

SomeStored ==
    { Absent,
      Stored100,
      Record(WB(Undefined, Undefined, Num(800), Num(600)), FullHD, TRUE, TRUE),
      Record(WB(Undefined, Num(100), Num(800), Num(600)), FullHD, FALSE, FALSE),
      Doc(TRUE, WB(Num(100), Num(100), Num(800), Num(600)), FALSE,
          defaultDisplayBounds, FALSE, FALSE),
      Doc(FALSE, InitialDefaultWindowBounds, TRUE, FullHD, FALSE, FALSE) }

SomeObs ==
    { Obs(Rect(100, 100, 800, 600), "normal", FullHD, "none"),
      Obs(Rect(0, 0, 1920, 1080), "maximized", FullHD, "none"),
      Obs(Rect(2000, 50, 1024, 768), "fullscreen", RightOf.bounds, "none"),
      Obs(Rect(100, 100, 800, 600), "minimized", RightOf.bounds, "none"),
      Obs(Rect(2000, 50, 1024, 768), "normal", RightOf.bounds, "getDisplayMatching"),
      NoObs }

Attached == {"w1"}

InitStore == InitWith(SomeStored)

NextStore ==
    \/ \E k \in Managed, options \in SomeOptions, layout \in SomeLayouts :
            Construct(k, options, layout)
    \/ \E k \in Managed, w \in Attached : subs[w][k] = 0 /\ Manage(k, w)
    \/ \E k \in Managed : Unmanage(k)
    \/ \E k \in Managed, w \in Attached, obs \in SomeObs : Close(w, k, obs)
    \/ \E k \in Managed, w \in Attached, outcome \in WriteOutcomes : Closed(w, k, outcome)
    \/ \E k \in Managed, outcome \in WriteOutcomes : SaveState(k, NoWindow, NoObs, outcome)
    \/ \E k \in Managed, win \in Attached, obs \in SomeObs, outcome \in WriteOutcomes :
            SaveState(k, win, obs, outcome)

SpecStore == InitStore /\ [][NextStore]_vars

----------------------------------------------------------------------------
(* Claims about persisting.                                                *)

\* C4: no operation ever raises an error to the host, whatever the shape of the
\* stored record and whatever calls and notifications follow.
C4_NeverThrows == ~last.threw

\* the current state differs from the record loaded from storage, or there is none:
\* a member the loaded document lacks differs from whatever current holds
DiffersFromLoaded(k) ==
    LET rd == keeper[k].readedData
        s == getState(k)
    IN  \/ rd.kind # "object"
        \/ ~rd.hasWB
        \/ ~rd.hasDB
        \/ rd.windowBounds # s.windowBounds
        \/ rd.displayBounds # s.displayBounds
        \/ rd.isMaximized # s.isMaximized
        \/ rd.isFullScreen # s.isFullScreen

\* C5: when the attached window sends 'closed', the keeper detaches and persists:
\* if current differs from the loaded record, or none exists, a write of current is
\* made while that notification is handled.
C5_ClosedPersists ==
    \A k \in Keepers :
        ( last.op = "closed" /\ last.k = k /\ DiffersFromLoaded(k) )
            => ( ~keeper[k].isManage /\ last.writes >= 1 )

----------------------------------------------------------------------------
(* Claims about attaching, detaching and the debounce timer.               *)

\* C6: a burst of 'resize'/'move' notifications results in exactly one updateState
\* call, made once eventHandlingDelay has passed since the last notification of the
\* burst: while the burst's timer is pending no call was made, and once it is not,
\* one call was made, eventHandlingDelay or more after the last notification.
C6_Debounce ==
    \A k \in Keepers :
        /\ Len(keeper[k].timers) <= 1
        /\ hist[k].active =>
              IF keeper[k].timers # <<>>
              THEN hist[k].samples = 0
              ELSE hist[k].samples = 1 /\ hist[k].elapsed >= eventHandlingDelay

C6_Witness ==
    \E k \in Keepers :
        hist[k].active /\ hist[k].notes = 2 /\ hist[k].samples = 1 /\ last.op = "timer"

\* C7: when unmanage() returns no timer is pending, and while the keeper is not
\* attached no notification and no timer firing changes current.
C7_DetachStops ==
    [][ \A k \in Keepers :
          /\ ( last'.op = "unmanage" /\ last'.k = k ) => keeper'[k].timers = <<>>
          /\ ( /\ ~keeper[k].isManage
               /\ last'.k = k
               /\ last'.op \in {"notify", "timer", "close", "closed"} )
             => getState(k)' = getState(k) ]_vars

C7_Witness == last.op = "unmanage" /\ last.cleared = 1

\* C8: at most one window is managed at a time: the keeper's handlers are on the
\* window it manages, once, and on no other window.
C8_OneWindow ==
    \A k \in Keepers : \A w \in Windows :
        subs[w][k] <= IF keeper[k].isManage /\ keeper[k].winRef = w THEN 1 ELSE 0

\* C9: when unmanage() returns, none of the keeper's handlers is left on any window.
C9_DetachUnsubscribes ==
    \A k \in Keepers :
        ( last.op = "unmanage" /\ last.k = k ) => \A w \in Windows : subs[w][k] = 0

\* C10: manage(win) calls maximize() once if config.maximize and current.isMaximized
\* and not otherwise, setFullScreen(true) once if config.fullScreen and
\* current.isFullScreen and not otherwise, and leaves current as it was.
C10_AttachRestores ==
    [][ \A k \in Keepers :
          ( last'.op = "manage" /\ last'.k = k ) =>
              /\ last'.maximize =
                    IF keeper[k].config.maximize /\ getState(k).isMaximized THEN 1 ELSE 0
              /\ last'.setFullScreen =
                    IF keeper[k].config.fullScreen /\ getState(k).isFullScreen THEN 1 ELSE 0
              /\ getState(k)' = getState(k) ]_vars

C10_Witness ==
    \E k \in Keepers :
        /\ last.op = "manage" /\ last.k = k
        /\ keeper[k].config.maximize /\ ~keeper[k].config.fullScreen
        /\ getState(k).isMaximized /\ getState(k).isFullScreen
        /\ last.maximize = 1 /\ last.setFullScreen = 0

----------------------------------------------------------------------------
(* Claims about observing the window.                                      *)

\* keeper k called updateState in the step, on a window that answers every query
ObservedStep(k) ==
    /\ last'.k = k
    /\ last'.op \in {"save", "close", "timer"}
    /\ last'.updates >= 1
    /\ keeper[k].isManage
    /\ ~destroyed[IF last'.op = "save" THEN last'.w ELSE keeper[k].winRef]

\* C11: updateState on a window that is maximized, minimized or full-screen leaves
\* windowBounds as it was, and on a normal window makes windowBounds the bounds the
\* window reports; isMaximized, isFullScreen and displayBounds are overwritten from
\* the window in every case.
C11_ObservationFrame ==
    [][ \A k \in Keepers :
          ( ObservedStep(k) /\ last'.obs.failAt = "none" ) =>
              LET b == last'.obs.bounds
              IN  /\ getState(k)'.windowBounds =
                        IF last'.obs.mode = "normal"
                        THEN WB(Num(b.x), Num(b.y), Num(b.width), Num(b.height))
                        ELSE getState(k).windowBounds
                  /\ getState(k)'.isMaximized = (last'.obs.mode = "maximized")
                  /\ getState(k)'.isFullScreen = (last'.obs.mode = "fullscreen")
                  /\ getState(k)'.displayBounds = last'.obs.display ]_vars

C11_Witness ==
    \E k \in Keepers :
        /\ last.op = "save" /\ last.k = k /\ last.updates = 1
        /\ keeper[k].isManage
        /\ last.obs.mode = "maximized" /\ last.obs.failAt = "none"
        /\ getState(k).isMaximized
        /\ getState(k).displayBounds = last.obs.display
        /\ getState(k).windowBounds.width # Num(last.obs.bounds.width)

\* C12: when a query that updateState makes of the window or the screen throws, at
\* whichever point, every field of current is as it was before the call.
C12_FailedObservationNoOp ==
    [][ \A k \in Keepers :
          ( ObservedStep(k) /\ last'.obs.failAt # "none" ) => getState(k)' = getState(k) ]_vars

----------------------------------------------------------------------------
(* Claims about writing the store file.                                    *)

\* C13: saveState writes only when current differs from the record last written,
\* which after a successful write is current: a saveState() that immediately
\* follows a successful write, with no observation in between, writes nothing.
C13_NoRedundantWrite ==
    [][ \A k \in Keepers :
          ( /\ last.op = "save" /\ last.k = k /\ last.write = "written"
            /\ last'.op = "save" /\ last'.k = k /\ last'.updates = 0 )
          => last'.writes = 0 ]_vars

\* C14: a write that fails changes nothing in memory: current is what the call's
\* observation, if it made one, left; readedData is as before; the store file does
\* not hold a different record; and no timer is started.
C14_FailedWrite ==
    [][ \A k \in Keepers :
          ( last'.k = k /\ last'.op \in {"save", "closed"}
            /\ last'.write \in {"refused", "truncated"} )
          => /\ getState(k)' =
                    IF last'.op = "save" /\ last'.updates = 1
                    THEN updateState(k, last'.w, last'.obs) ELSE getState(k)
             /\ keeper'[k].readedData = keeper[k].readedData
             /\ storage'.kind = "object" => storage' = storage
             /\ Len(keeper'[k].timers) <= Len(keeper[k].timers) ]_vars

C14_Witness ==
    \E k \in Keepers :
        /\ last.op = "save" /\ last.k = k /\ last.write = "refused"
        /\ storage.kind = "object"
        /\ storage # ToDocument(getState(k))

\* C15: the change test answers "no change" when a state is compared with itself
\* and "changed" when it is compared with no record, for every state: for the
\* current state of every keeper, and in every saveState call that made the test.
C15_HasChanged ==
    \A k \in Keepers :
        keeper[k].created =>
            LET a == getState(k)
                rd == keeper[k].readedData
            IN  /\ checkUpdatedStateCompareToReadedData(ToDocument(a), a) = "same"
                /\ checkUpdatedStateCompareToReadedData(Absent, a) = "changed"
                /\ ( last.op = "save" /\ last.k = k /\ rd = ToDocument(a) )
                        => ( last.writes = 0 /\ ~last.threw )
                /\ ( last.op = "save" /\ last.k = k /\ rd = Absent )
                        => last.writes = 1

C15_Witness ==
    \E k \in Keepers :
        /\ last.op = "save" /\ last.k = k /\ last.updates = 1
        /\ last.obs.failAt = "none"
        /\ keeper[k].readedData = ToDocument(getState(k))
        /\ last.writes = 0

----------------------------------------------------------------------------
(* Claims about fitting the loaded window to a display.                    *)

\* keeper k was just constructed from a record with valid bounds that is neither
\* maximized nor full-screen
JustReconciled(k) ==
    LET doc == keeper[k].readedData
    IN  /\ JustCreated(k)
        /\ Loads(doc)
        /\ hasBounds(LoadedState(doc))
        /\ ~doc.isMaximized /\ ~doc.isFullScreen

\* the display the record of keeper k was found on, 0 when none
FoundOn(k) == FindDisplay(LoadedState(keeper[k].readedData), last.layout)

\* C16: ensureWindowVisibleOnSomeDisplay is idempotent: applied again, to the state
\* it produced and with the same displays, it leaves that state unchanged.
C16_ReconcileIdempotent ==
    \A k \in Keepers :
        JustReconciled(k) =>
            ensureWindowVisibleOnSomeDisplay(getState(k), keeper[k].config, last.layout)
                = getState(k)

\* C17: after resizeAndReplaceWindowForWorkArea the window's right edge is not
\* beyond the right edge of the display's work area and its bottom edge is not
\* beyond the work area's bottom edge, wherever the display's origin is.
C17_InsideWorkArea ==
    \A k \in Keepers :
        ( JustReconciled(k) /\ FoundOn(k) # 0 ) =>
            LET wa == last.layout.displays[FoundOn(k)].workArea
                wb == getState(k).windowBounds
            IN  /\ wb.x.v + wb.width.v <= wa.x + wa.width
                /\ wb.y.v + wb.height.v <= wa.y + wa.height

\* C18: after resizeAndReplaceWindowForWorkArea the width is at most the work
\* area's width and the height at most its height, and a width or height that was
\* within the work area's is as it was loaded.
C18_ShrinkToWorkArea ==
    \A k \in Keepers :
        ( JustReconciled(k) /\ FoundOn(k) # 0 ) =>
            LET wa == last.layout.displays[FoundOn(k)].workArea
                wb == getState(k).windowBounds
                was == keeper[k].readedData.windowBounds
            IN  /\ wb.width.v <= wa.width
                /\ wb.height.v <= wa.height
                /\ was.width.v <= wa.width => wb.width = was.width
                /\ was.height.v <= wa.height => wb.height = was.height

C18_Witness ==
    \E k \in Keepers :
        /\ JustReconciled(k) /\ FoundOn(k) # 0
        /\ last.layout.displays[FoundOn(k)] = BottomBar
        /\ keeper[k].readedData.windowBounds.height = Num(1080)
        /\ getState(k).windowBounds.height = Num(1040)
        /\ getState(k).windowBounds.width = Num(1920)

----------------------------------------------------------------------------
(* Claims about accepting a stored record.                                 *)

\* x, y, width and height are all present integers, width > 0 and height > 0
AllPresentIntegersPositive(wb) ==
    /\ \A f \in {"x", "y", "width", "height"} : wb[f].t = "int"
    /\ wb.width.v > 0
    /\ wb.height.v > 0

\* C19: hasBounds() is true exactly when x, y, width and height are all present
\* integers with width > 0 and height > 0; a stored record (a document with its
\* windowBounds and displayBounds) is accepted exactly when its bounds are so or
\* it is maximized or full-screen, and otherwise none of it is kept: the state is
\* the default one.
C19_ValidRecord ==
    \A k \in Keepers :
        LET doc == keeper[k].readedData
            ok == AllPresentIntegersPositive(doc.windowBounds)
        IN  ( JustCreated(k) /\ doc.kind = "object" /\ doc.hasWB /\ doc.hasDB ) =>
                /\ hasBounds(LoadedState(doc)) <=> ok
                /\ ~keeper[k].wbShared <=> ( ok \/ doc.isMaximized \/ doc.isFullScreen )
                /\ keeper[k].wbShared =>
                      /\ getState(k) =
                            State(defaultWindowBounds, defaultDisplayBounds, FALSE, FALSE)
                      /\ defaultWindowBounds.x = Undefined
                      /\ defaultWindowBounds.y = Undefined

C19_Witness ==
    \E k \in Keepers :
        /\ JustCreated(k)
        /\ keeper[k].readedData.kind = "object"
        /\ keeper[k].readedData.windowBounds.height = Frac(600)
        /\ ~keeper[k].readedData.isMaximized /\ ~keeper[k].readedData.isFullScreen
        /\ keeper[k].wbShared
        /\ getState(k).windowBounds.height # Frac(600)

----------------------------------------------------------------------------
(* Claims about detaching.                                                 *)

\* C20: unmanage() never writes the store file and never changes current, and
\* when the keeper is not attached (before any manage, or right after an
\* unmanage) it changes nothing at all: not the keeper, not the listeners on any
\* window.
C20_DetachFrame ==
    [][ \A k \in Keepers :
          ( last'.op = "unmanage" /\ last'.k = k ) =>
              /\ storage' = storage
              /\ getState(k)' = getState(k)
              /\ ~keeper[k].isManage => ( keeper'[k] = keeper[k] /\ subs' = subs ) ]_vars

----------------------------------------------------------------------------
(* SpecPair: two keepers in one process, each with a window of its own,    *)
(* attached, observed at 'close' and in saveState(win), and detached.      *)

\* the window the host hands to keeper k
WindowOf(k) == IF k = 1 THEN "w1" ELSE "w2"

InitPair == InitWith(AttachStored)

NextPair ==
    \/ \E k \in Keepers, layout \in SomeLayouts : Construct(k, NoOptions, layout)
    \/ \E k \in Keepers : subs[WindowOf(k)][k] = 0 /\ Manage(k, WindowOf(k))
    \/ \E k \in Keepers : Unmanage(k)
    \/ \E k \in Keepers, obs \in AttachObs : Close(WindowOf(k), k, obs)
    \/ \E k \in Keepers : Closed(WindowOf(k), k, "written")
    \/ \E k \in Keepers, obs \in AttachObs : SaveState(k, WindowOf(k), obs, "written")

SpecPair == InitPair /\ [][NextPair]_vars

\* C21: keepers do not interfere: no manage, notification, timer, unmanage or
\* saveState of one keeper changes the state the other keeper's getState()
\* returns, and a keeper constructed without a stored record starts from the
\* configured defaults with no position, whatever earlier keepers observed.
C21_NoInterference ==
    [][ \A k \in Keepers :
          /\ ( keeper[k].created /\ last'.k # k
               /\ last'.op \in {"manage", "notify", "timer", "close", "closed",
                                "unmanage", "save"} )
             => getState(k)' = getState(k)
          /\ ( last'.op = "create" /\ last'.k = k /\ ~keeper[k].created
               /\ keeper'[k].readedData = Absent )
             => getState(k)' = ConfiguredDefault(keeper'[k].config, defaultDisplayBounds)
      ]_vars

----------------------------------------------------------------------------
(* Claims about the notifications and the writes they cause.               *)

\* C22: 'close' from the attached window is observed at once, while the
\* notification is handled and without a timer: current holds the bounds the
\* window reported at 'close', and when 'closed' follows, saveState compares and
\* writes that record.
C22_CloseObservesAtOnce ==
    [][ \A k \in Keepers :
          LET b == last'.obs.bounds
              c == last.obs.bounds
          IN  /\ ( /\ last'.op = "close" /\ last'.k = k
                   /\ keeper[k].isManage /\ keeper[k].winRef = last'.w
                   /\ last'.obs.failAt = "none" /\ last'.obs.mode = "normal" )
                 => /\ getState(k)'.windowBounds =
                          WB(Num(b.x), Num(b.y), Num(b.width), Num(b.height))
                    /\ getState(k)'.displayBounds = last'.obs.display
                    /\ keeper'[k].timers = keeper[k].timers
              /\ ( /\ last.op = "close" /\ last.k = k
                   /\ keeper[k].isManage /\ keeper[k].winRef = last.w
                   /\ last.obs.failAt = "none" /\ last.obs.mode = "normal"
                   /\ last'.op = "closed" /\ last'.k = k /\ last'.write = "written" )
                 => /\ storage' = ToDocument(getState(k))
                    /\ storage'.windowBounds =
                          WB(Num(c.x), Num(c.y), Num(c.width), Num(c.height)) ]_vars

C22_Witness ==
    \E k \in Keepers :
        /\ last.op = "close" /\ last.k = k
        /\ keeper[k].isManage /\ keeper[k].winRef = last.w
        /\ last.obs.failAt = "none" /\ last.obs.mode = "normal"
        /\ keeper[k].readedData = Absent
        /\ getState(k).windowBounds = WB(Num(100), Num(100), Num(800), Num(600))
        /\ keeper[k].timers = <<>>

\* C23: 'closed' is the only notification that writes the store file: the
\* construction, manage, a 'resize' or 'move', the timer, 'close' and unmanage
\* attempt no write and leave the file as it is; the file changes only in a
\* 'closed' or a saveState call; and 'closed' does attempt the write when
\* current differs from the record read at start.
C23_OnlyClosedPersists ==
    [][ /\ last'.op \in {"create", "manage", "notify", "tick", "timer", "close", "unmanage"}
            => ( storage' = storage /\ last'.writes = 0 /\ last'.write = "none" )
        /\ storage' # storage => last'.op \in {"closed", "save"}
        /\ \A k \in Keepers :
              ( last'.op = "closed" /\ last'.k = k /\ ~last'.threw /\ DiffersFromLoaded(k) )
                  => last'.writes >= 1 ]_vars

C23_Witness ==
    \E k \in Keepers :
        /\ last.op = "closed" /\ last.k = k
        /\ last.write = "written"
        /\ storage = ToDocument(getState(k))
        /\ keeper[k].readedData # storage

\* C24: in every reachable state a keeper has at most one timer outstanding, the
\* one stateChangeTimer refers to: a 'resize' or 'move' cancels the timer set
\* before it sets the next.
C24_OneTimer ==
    \A k \in Keepers :
        /\ Len(keeper[k].timers) <= 1
        /\ keeper[k].handleLive <=> keeper[k].timers # <<>>
        /\ ( last.op = "notify" /\ last.k = k ) => Len(keeper[k].timers) = 1

C24_Witness ==
    \E k \in Keepers :
        /\ last.op = "notify" /\ last.k = k /\ last.cleared = 1
        /\ Len(keeper[k].timers) = 1
        /\ keeper[k].timers[1] = eventHandlingDelay

----------------------------------------------------------------------------
(* Claims about the pure tests.                                            *)

\* the four edges of the rectangle wb, an unset x or y taken as 0, are inside b
FourEdgesInside(wb, b) ==
    LET X == IF wb.x.t = "int" THEN wb.x.v ELSE 0
        Y == IF wb.y.t = "int" THEN wb.y.v ELSE 0
    IN  /\ wb.width.t = "int" /\ wb.height.t = "int"
        /\ X >= b.x
        /\ Y >= b.y
        /\ X + wb.width.v <= b.x + b.width
        /\ Y + wb.height.v <= b.y + b.height

\* C25: windowWithinBounds(bounds) is true exactly when the window's four edges,
\* an unset x or y taken as 0, are inside bounds, for the stored rectangles whose
\* numbers are integers or unset and every display of the layout; a record with
\* valid bounds is reset exactly when no display passes the test.
C25_WindowWithinBounds ==
    \A k \in Keepers :
        LET doc == keeper[k].readedData
            wb == doc.windowBounds
        IN  ( /\ JustCreated(k) /\ doc.kind = "object" /\ doc.hasWB /\ doc.hasDB
              /\ \A f \in {"x", "y", "width", "height"} : wb[f].t # "fraction" )
            => /\ \A i \in 1..Len(last.layout.displays) :
                     windowWithinBounds(LoadedState(doc), last.layout.displays[i].bounds)
                        <=> FourEdgesInside(wb, last.layout.displays[i].bounds)
               /\ hasBounds(LoadedState(doc)) =>
                     ( ( getState(k).windowBounds.x = Undefined )
                        <=> ( \A i \in 1..Len(last.layout.displays) :
                                ~FourEdgesInside(wb, last.layout.displays[i].bounds) ) )

C25_Witness ==
    \E k \in Keepers :
        /\ JustCreated(k)
        /\ keeper[k].readedData.kind = "object"
        /\ keeper[k].readedData.windowBounds = WB(Num(2000), Num(100), Num(800), Num(600))
        /\ last.layout = Layout(<<Plain>>, 1)
        /\ ~windowWithinBounds(LoadedState(keeper[k].readedData), Plain.bounds)
        /\ getState(k).windowBounds.x = Undefined

\* the records that differ from the record of state a in exactly one of the ten
\* fields
OneFieldOff(a) ==
    LET doc == ToDocument(a)
        Other(j) == Num(OrZero(j) + 1)
    IN  { [doc EXCEPT !.displayBounds[f] = @ + 1] : f \in {"x", "y", "width", "height"} }
        \cup { [doc EXCEPT !.windowBounds[f] = Other(@)] : f \in {"x", "y", "width", "height"} }
        \cup { [doc EXCEPT !.isMaximized = ~@], [doc EXCEPT !.isFullScreen = ~@] }

\* C26: the change test answers "changed" whenever the record read at start is
\* there, with its windowBounds and displayBounds, and differs from current in
\* any one field; saveState then writes, also when displayBounds alone differs.
C26_AnyFieldDiffers ==
    \A k \in Keepers :
        keeper[k].created =>
            LET a == getState(k)
                rd == keeper[k].readedData
            IN  /\ \A b \in OneFieldOff(a) :
                      checkUpdatedStateCompareToReadedData(b, a) = "changed"
                /\ ( /\ last.op = "save" /\ last.k = k
                     /\ rd.kind = "object" /\ rd.hasWB /\ rd.hasDB
                     /\ rd # ToDocument(a) )
                   => last.writes = 1

C26_Witness ==
    \E k \in Keepers :
        LET a == getState(k)
            rd == keeper[k].readedData
        IN  /\ last.op = "save" /\ last.k = k
            /\ rd.kind = "object" /\ rd.hasWB /\ rd.hasDB
            /\ rd.windowBounds = a.windowBounds
            /\ rd.isMaximized = a.isMaximized /\ rd.isFullScreen = a.isFullScreen
            /\ rd.displayBounds # a.displayBounds
            /\ last.writes = 1

\* C27: the store file never lags behind memory after a saveState: when a
\* saveState call returns without throwing and without a failed write, the file
\* holds the record of current.
C27_StorageFollows ==
    \A k \in Keepers :
        ( last.op = "save" /\ last.k = k /\ ~last.threw
          /\ last.write \in {"written", "none"} )
        => storage = ToDocument(getState(k))

\* the record of keeper k was found on a display and lies inside its work area
InsideWorkArea(k) ==
    LET wa == last.layout.displays[FoundOn(k)].workArea
        wb == keeper[k].readedData.windowBounds
    IN  /\ wa.x <= wb.x.v
        /\ wa.y <= wb.y.v
        /\ wb.x.v + wb.width.v <= wa.x + wa.width
        /\ wb.y.v + wb.height.v <= wa.y + wa.height

\* C28: resizeAndReplaceWindowForWorkArea changes nothing when the window, not
\* maximized and not full-screen, already lies inside the display's work area,
\* wherever the display is and on whichever side its taskbar.
C28_ClampKeepsInside ==
    \A k \in Keepers :
        ( JustReconciled(k) /\ FoundOn(k) # 0 /\ InsideWorkArea(k) )
        => getState(k).windowBounds = keeper[k].readedData.windowBounds

\* C29: saveState(win) with a window first observes that window, whether or not
\* the keeper is attached: when win answers every query, the record compared and
\* written has win's flags and display, and win's bounds when win is normal.
C29_PersistObserves ==
    [][ \A k \in Keepers :
          ( /\ last'.op = "save" /\ last'.k = k /\ last'.updates = 1
            /\ last'.obs.failAt = "none" /\ ~destroyed[last'.w] )
          => LET b == last'.obs.bounds
             IN  /\ getState(k)'.isMaximized = (last'.obs.mode = "maximized")
                 /\ getState(k)'.isFullScreen = (last'.obs.mode = "fullscreen")
                 /\ getState(k)'.displayBounds = last'.obs.display
                 /\ last'.obs.mode = "normal" =>
                        getState(k)'.windowBounds =
                            WB(Num(b.x), Num(b.y), Num(b.width), Num(b.height)) ]_vars

====
